---- MODULE Spec2Model ----
(***************************************************************************)
(* Model of MATHBOT's server.py: the websocket session handler             *)
(* (websocket_endpoint), the connection registry (ConnectionManager) and   *)
(* the upstream chat adapter (call_openai_chat).                           *)
(*                                                                         *)
(* Python values are tagged records: [str |-> s], [num |-> n],             *)
(* [none |-> TRUE], [bool |-> b], [list |-> <<...>>] and                   *)
(* [dict |-> <<<<k1, v1>>, ...>>] (insertion ordered, as Python dicts).    *)
(* Python str values are TLA+ strings, handled character by character.     *)
(*                                                                         *)
(* Spec is the server with its sessions: the steps of websocket_endpoint   *)
(* between two suspension points are one action each.  SpecAdapter is one  *)
(* run of call_openai_chat over a wider set of upstream outcomes.          *)
(* What starlette/uvicorn do when the peer has gone (send_text on a closed *)
(* socket, receive_text on a frame that is not text) is not fixed by the   *)
(* repository; the model takes every outcome these libraries can produce.  *)
(***************************************************************************)
EXTENDS Integers, Sequences, FiniteSets, TLC

VARIABLES
    OPENAI_API_KEY,      \* module global, server.py:22 (PyNone when unset)
    USE_MOCK,            \* module global, server.py:25
    active_connections,  \* manager.active_connections, server.py:168
    pc,                  \* per connection: where its websocket_endpoint coroutine is
    client_open,         \* per connection: the peer has not closed the socket
    data,                \* per connection: local `data` of websocket_endpoint
    text,                \* per connection: local `text`
    msg_id,              \* per connection: local `msg_id`
    result,              \* per connection: local `result`
    wire,                \* per connection: the last text frame written to its socket
    delivered,           \* per connection: number of text frames written to its socket
    received,            \* per connection: number of text frames read by receive_text
    send_calls,          \* per connection: number of send_text calls made
    inflight,            \* per connection: upstream calls started and not yet returned
    upstream_calls,      \* number of sync_call invocations made for the adapter run
    a_pc,                \* the stand-alone adapter run: where call_openai_chat is
    a_prompt,            \* the stand-alone adapter run: its prompt argument
    a_upstream,          \* the stand-alone adapter run: what sync_call did
    a_result             \* the stand-alone adapter run: its return value

vars == <<OPENAI_API_KEY, USE_MOCK, active_connections, pc, client_open, data,
          text, msg_id, result, wire, delivered, received, send_calls,
          inflight, upstream_calls, a_pc, a_prompt, a_upstream, a_result>>

session_vars == <<active_connections, pc, client_open, data, text, msg_id,
                  result, wire, delivered, received, send_calls, inflight>>

adapter_vars == <<upstream_calls, a_pc, a_prompt, a_upstream, a_result>>

config_vars == <<OPENAI_API_KEY, USE_MOCK>>

----------------------------------------------------------------------------
(* Python values *)

PyStr(s) == [str |-> s]
PyNum(n) == [num |-> n]
PyBool(b) == [bool |-> b]
PyNone == [none |-> TRUE]
PyList(xs) == [list |-> xs]
PyDict(kvs) == [dict |-> kvs]
Unset == [unset |-> TRUE]

IsStr(v) == DOMAIN v = {"str"}
IsDict(v) == DOMAIN v = {"dict"}

\* Python truthiness, as used by `or` and `if not`.
Truthy(v) ==
    CASE DOMAIN v = {"str"} -> v.str # ""
      [] DOMAIN v = {"num"} -> v.num # 0
      [] DOMAIN v = {"bool"} -> v.bool
      [] DOMAIN v = {"none"} -> FALSE
      [] DOMAIN v = {"list"} -> Len(v.list) > 0
      [] DOMAIN v = {"dict"} -> Len(v.dict) > 0

\* a or b
PyOr(a, b) == IF Truthy(a) THEN a ELSE b

\* d.get(k, default) on a dict value
dict_get(d, k, default) ==
    LET hits == {i \in 1..Len(d.dict) : d.dict[i][1] = k}
    IN  IF hits = {} THEN default ELSE d.dict[CHOOSE i \in hits : TRUE][2]

\* d[k] = v : a present key keeps its position, a new key is appended
dict_set(kvs, k, v) ==
    IF \E i \in 1..Len(kvs) : kvs[i][1] = k
    THEN [i \in 1..Len(kvs) |-> IF kvs[i][1] = k THEN <<k, v>> ELSE kvs[i]]
    ELSE Append(kvs, <<k, v>>)

\* `sub in s` on str
Contains(s, sub) ==
    \E i \in 1..(Len(s) - Len(sub) + 1) : SubSeq(s, i, i + Len(sub) - 1) = sub

----------------------------------------------------------------------------------------------------------------------------------------
(* json.loads and json.dumps on the JSON subset the model's inputs use:     *)
(* objects, arrays, strings with the escapes \" and \\, non-negative        *)
(* integers, null, true, false, and blanks between tokens.                  *)

\* F applied to the value of v (v is evaluated once)
Bind(v, F(_)) == CHOOSE r \in {F(x) : x \in {v}} : TRUE

Ch(s, i) == IF i >= 1 /\ i <= Len(s) THEN SubSeq(s, i, i) ELSE ""

Lit(s, i, w) == i + Len(w) - 1 <= Len(s) /\ SubSeq(s, i, i + Len(w) - 1) = w

Digits == {"0", "1", "2", "3", "4", "5", "6", "7", "8", "9"}

DigitVal(c) ==
    CASE c = "0" -> 0 [] c = "1" -> 1 [] c = "2" -> 2 [] c = "3" -> 3
      [] c = "4" -> 4 [] c = "5" -> 5 [] c = "6" -> 6 [] c = "7" -> 7
      [] c = "8" -> 8 [] c = "9" -> 9

DigitChar(n) ==
    CASE n = 0 -> "0" [] n = 1 -> "1" [] n = 2 -> "2" [] n = 3 -> "3"
      [] n = 4 -> "4" [] n = 5 -> "5" [] n = 6 -> "6" [] n = 7 -> "7"
      [] n = 8 -> "8" [] n = 9 -> "9"

ParseFail == [ok |-> FALSE]
Parsed(v, next) == [ok |-> TRUE, v |-> v, next |-> next]

\* the first position at or after i that holds no blank
SkipWs(s, i) ==
    CHOOSE j \in i..(Len(s) + 1) :
        /\ Ch(s, j) # " "
        /\ \A k \in i..(j - 1) : Ch(s, k) = " "

\* the number of consecutive backslashes right before position k, back to i
RunLen(s, k, i) ==
    CHOOSE n \in 0..(k - i) :
        /\ \A t \in 1..n : Ch(s, k - t) = "\\"
        /\ (n < k - i => Ch(s, k - n - 1) # "\\")

\* a backslash that escapes the character after it
Escaping(s, k, i) == Ch(s, k) = "\\" /\ RunLen(s, k, i) % 2 = 0

\* the characters lo..hi of a string body that starts at i, escapes removed
RECURSIVE Unescape(_, _, _, _)
Unescape(s, i, lo, hi) ==
    IF lo > hi THEN ""
    ELSE IF lo = hi THEN (IF Escaping(s, lo, i) THEN "" ELSE Ch(s, lo))
    ELSE Bind((lo + hi) \div 2,
              LAMBDA mid : Unescape(s, i, lo, mid) \o Unescape(s, i, mid + 1, hi))

\* position j holds the quote that ends the string body starting at i
Closing(s, j, i) == Ch(s, j) = "\"" /\ RunLen(s, j, i) % 2 = 0

\* a string whose opening quote is at i - 1
ScanStr(s, i) ==
    IF ~\E q \in i..Len(s) : Closing(s, q, i) THEN ParseFail
    ELSE Bind(CHOOSE q \in i..Len(s) :
                  Closing(s, q, i) /\ \A k \in i..(q - 1) : ~Closing(s, k, i),
              LAMBDA j :
                IF \E k \in i..(j - 1) :
                       Escaping(s, k, i) /\ Ch(s, k + 1) \notin {"\"", "\\"}
                THEN ParseFail
                ELSE IF \A k \in i..(j - 1) : Ch(s, k) # "\\"
                THEN Parsed(PyStr(SubSeq(s, i, j - 1)), j + 1)
                ELSE Parsed(PyStr(Unescape(s, i, i, j - 1)), j + 1))

\* the decimal digits from i on
ScanInt(s, i) ==
    Bind(CHOOSE j \in i..(Len(s) + 1) :
             /\ Ch(s, j) \notin Digits
             /\ \A k \in i..(j - 1) : Ch(s, k) \in Digits,
         LAMBDA j :
           LET val[k \in i..j] ==
                   IF k = i THEN 0 ELSE 10 * val[k - 1] + DigitVal(Ch(s, k - 1))
           IN  Parsed(PyNum(val[j]), j))

RECURSIVE ParseValue(_, _)
RECURSIVE ParseMembers(_, _, _)
RECURSIVE ParseElements(_, _, _)

ParseValue(s, i0) ==
    Bind(SkipWs(s, i0), LAMBDA i :
      Bind(Ch(s, i), LAMBDA c :
        IF c = "\"" THEN ScanStr(s, i + 1)
        ELSE IF c = "{"
             THEN Bind(SkipWs(s, i + 1), LAMBDA n :
                    IF Ch(s, n) = "}" THEN Parsed(PyDict(<<>>), n + 1)
                    ELSE ParseMembers(s, n, <<>>))
        ELSE IF c = "["
             THEN Bind(SkipWs(s, i + 1), LAMBDA n :
                    IF Ch(s, n) = "]" THEN Parsed(PyList(<<>>), n + 1)
                    ELSE ParseElements(s, n, <<>>))
        ELSE IF c = "0" THEN Parsed(PyNum(0), i + 1)
        ELSE IF c \in Digits THEN ScanInt(s, i)
        ELSE IF Lit(s, i, "null") THEN Parsed(PyNone, i + 4)
        ELSE IF Lit(s, i, "true") THEN Parsed(PyBool(TRUE), i + 4)
        ELSE IF Lit(s, i, "false") THEN Parsed(PyBool(FALSE), i + 5)
        ELSE ParseFail))

\* after "{" or ",": "key" : value, then "," or "}"
ParseMembers(s, i0, kvs) ==
    Bind(SkipWs(s, i0), LAMBDA i :
      IF Ch(s, i) # "\"" THEN ParseFail
      ELSE Bind(ScanStr(s, i + 1), LAMBDA k :
        IF ~k.ok THEN ParseFail
        ELSE Bind(SkipWs(s, k.next), LAMBDA j :
          IF Ch(s, j) # ":" THEN ParseFail
          ELSE Bind(ParseValue(s, j + 1), LAMBDA v :
            IF ~v.ok THEN ParseFail
            ELSE Bind(<<SkipWs(s, v.next), dict_set(kvs, k.v.str, v.v)>>, LAMBDA nd :
              IF Ch(s, nd[1]) = "," THEN ParseMembers(s, nd[1] + 1, nd[2])
              ELSE IF Ch(s, nd[1]) = "}" THEN Parsed(PyDict(nd[2]), nd[1] + 1)
              ELSE ParseFail)))))

\* after "[" or ",": value, then "," or "]"
ParseElements(s, i0, xs) ==
    Bind(ParseValue(s, i0), LAMBDA v :
      IF ~v.ok THEN ParseFail
      ELSE Bind(<<SkipWs(s, v.next), Append(xs, v.v)>>, LAMBDA nd :
        IF Ch(s, nd[1]) = "," THEN ParseElements(s, nd[1] + 1, nd[2])
        ELSE IF Ch(s, nd[1]) = "]" THEN Parsed(PyList(nd[2]), nd[1] + 1)
        ELSE ParseFail))

\* json.loads(x): [ok |-> TRUE, v |-> value], or [ok |-> FALSE] when it raises
\* (TypeError on a non-str argument, JSONDecodeError on bad or trailing text).
json_loads(x) ==
    IF ~IsStr(x) THEN ParseFail
    ELSE Bind(x.str, LAMBDA s :
           Bind(ParseValue(s, 1), LAMBDA r :
             IF r.ok /\ SkipWs(s, r.next) = Len(s) + 1
             THEN [ok |-> TRUE, v |-> r.v]
             ELSE ParseFail))

\* the characters lo..hi of s, with \ put before each " and \
RECURSIVE EscapeRange(_, _, _)
EscapeRange(s, lo, hi) ==
    IF lo > hi THEN ""
    ELSE IF lo = hi
         THEN (IF Ch(s, lo) \in {"\"", "\\"} THEN "\\" \o Ch(s, lo) ELSE Ch(s, lo))
    ELSE Bind((lo + hi) \div 2,
              LAMBDA mid : EscapeRange(s, lo, mid) \o EscapeRange(s, mid + 1, hi))

Escape(s0) ==
    Bind(s0, LAMBDA s :
      IF \A k \in 1..Len(s) : Ch(s, k) \notin {"\"", "\\"}
      THEN s
      ELSE EscapeRange(s, 1, Len(s)))

RECURSIVE IntToStr(_)
IntToStr(n) ==
    IF n < 10 THEN DigitChar(n) ELSE IntToStr(n \div 10) \o DigitChar(n % 10)

RECURSIVE json_dumps(_)
RECURSIVE DumpItems(_, _)
RECURSIVE DumpElems(_, _)

\* json.dumps(v) with the default separators ", " and ": "
json_dumps(v0) ==
    Bind(v0, LAMBDA v :
      CASE DOMAIN v = {"str"} -> "\"" \o Escape(v.str) \o "\""
        [] DOMAIN v = {"num"} -> IntToStr(v.num)
        [] DOMAIN v = {"bool"} -> IF v.bool THEN "true" ELSE "false"
        [] DOMAIN v = {"none"} -> "null"
        [] DOMAIN v = {"list"} -> "[" \o DumpElems(v.list, 1) \o "]"
        [] DOMAIN v = {"dict"} -> "{" \o DumpItems(v.dict, 1) \o "}")

DumpItems(kvs, i) ==
    IF i > Len(kvs) THEN ""
    ELSE "\"" \o Escape(kvs[i][1]) \o "\": " \o json_dumps(kvs[i][2])
         \o (IF i < Len(kvs) THEN ", " ELSE "") \o DumpItems(kvs, i + 1)

DumpElems(xs, i) ==
    IF i > Len(xs) THEN ""
    ELSE json_dumps(xs[i]) \o (IF i < Len(xs) THEN ", " ELSE "") \o DumpElems(xs, i + 1)

----------------
(* call_openai_chat *)

NoKeyExplanation == "OpenAI API key not set on server. Please set OPENAI_API_KEY in the environment to enable LLM responses. Example: export OPENAI_API_KEY=your_key"
NoKeySpeech == "Open A I key not set on the server. Please set it and restart the server."
MockExplanation == "(Mock) The derivative of x^2 is 2x. In general, d/dx x^n = n x^{n-1}."
MockSpeech == "Mock answer: the derivative of x squared is two x."
FailedPrefix == "OpenAI request failed: "
QuotaSpeech == "OpenAI returned a quota error (insufficient quota or rate limit). Check your OpenAI plan/billing and consider setting OPENAI_MODEL=gpt-3.5-turbo or enabling USE_MOCK=true for testing."
GenericSpeech == "Sorry, I could not reach the language model."

\* the dict call_openai_chat returns
Answer(explanation, speech) ==
    PyDict(<< <<"explanation", explanation>>, <<"speech", speech>> >>)

NoKeyAnswer == Answer(PyStr(NoKeyExplanation), PyStr(NoKeySpeech))
MockAnswer == Answer(PyStr(MockExplanation), PyStr(MockSpeech))

\* Lines 78-90: the returns taken before any upstream call; Unset when the
\* function goes on to the upstream call.
early_return(key, mock) ==
    IF ~Truthy(key) THEN NoKeyAnswer
    ELSE IF mock THEN MockAnswer
    ELSE Unset

\* Lines 130-143: the reply's text, probing resp["choices"][0]["message"]["content"],
\* then resp.choices[0].message.content, then resp["choices"][0]["text"], then str(resp).
\* A field of resp that is Unset stands for an access that raises.
extract_content(resp) ==
    IF resp.item_content # Unset THEN resp.item_content
    ELSE IF resp.attr_content # Unset THEN resp.attr_content
    ELSE IF resp.item_text # Unset THEN resp.item_text
    ELSE PyStr(resp.repr)

\* Lines 145-153: parse the text as JSON and pick the two fields.
normalize(content) ==
    LET p == json_loads(content)
    IN  IF p.ok /\ IsDict(p.v)
        THEN LET explanation ==
                     PyOr(PyOr(dict_get(p.v, "explanation", PyNone),
                               dict_get(p.v, "explain", PyNone)), content)
                 speech ==
                     PyOr(PyOr(dict_get(p.v, "speech", PyNone),
                               dict_get(p.v, "speak", PyNone)), explanation)
             IN  Answer(explanation, speech)
        ELSE Answer(content, content)

\* on_exception without the "429" test
on_exception_no429(errmsg) ==
    IF \/ Contains(errmsg, "insufficient_quota")
       \/ Contains(errmsg, "quota")
    THEN Answer(PyStr(FailedPrefix \o errmsg), PyStr(QuotaSpeech))
    ELSE Answer(PyStr(FailedPrefix \o errmsg), PyStr(GenericSpeech))

\* Lines 154-163: the degraded answer for an exception whose str() is errmsg.
on_exception(errmsg) ==
    IF \/ Contains(errmsg, "insufficient_quota")
       \/ Contains(errmsg, "quota")
       \/ Contains(errmsg, "429")
    THEN Answer(PyStr(FailedPrefix \o errmsg), PyStr(QuotaSpeech))
    ELSE Answer(PyStr(FailedPrefix \o errmsg), PyStr(GenericSpeech))

\* Lines 127-163: what call_openai_chat returns once `await asyncio.to_thread(sync_call)`
\* has ended with `outcome`: [raised |-> errmsg] or [resp |-> the reply object].
after_upstream(outcome) ==
    IF DOMAIN outcome = {"raised"}
    THEN on_exception(outcome.raised)
    ELSE normalize(extract_content(outcome.resp))

----------------------------------------------------------------------------
(* Inputs of the adapter: what `await asyncio.to_thread(sync_call)` can do *)

MaxFrames == 2

JsonObj(kvs) == json_dumps(PyDict(kvs))

\* the texts an upstream reply can carry
ContentTexts ==
    {JsonObj(<< <<"explanation", PyStr(e)>>, <<"speech", PyStr(sp)>> >>) :
        e \in {"", "E"}, sp \in {"", "S"}}
    \cup {JsonObj(<< <<"explain", PyStr(e)>>, <<"speak", PyStr(sp)>> >>) :
        e \in {"", "E"}, sp \in {"", "S"}}
    \cup {JsonObj(<< <<"explanation", PyStr("E")>> >>),
          JsonObj(<< <<"speech", PyStr("S")>> >>),
          JsonObj(<< <<"explain", PyStr("E")>>, <<"speech", PyStr("S")>> >>),
          JsonObj(<< <<"explanation", PyNum(5)>>, <<"speech", PyNone>> >>),
          JsonObj(<< <<"explanation", PyStr("E")>>, <<"speech", PyNum(7)>> >>),
          JsonObj(<<>>),
          "hello", "[1]", "\"hello\"", ""}

\* message.content is a str, or None (a reply that carries no text)
Contents == {PyStr(t) : t \in ContentTexts} \cup {PyNone}

Resps ==
    {[item_content |-> c, attr_content |-> Unset, item_text |-> Unset,
      repr |-> "<resp>"] : c \in Contents}
    \cup {[item_content |-> Unset, attr_content |-> c, item_text |-> Unset,
           repr |-> "<resp>"] : c \in Contents}
    \cup {[item_content |-> Unset, attr_content |-> Unset, item_text |-> PyStr(t),
           repr |-> "<resp>"] : t \in {"hello", JsonObj(<< <<"speak", PyStr("S")>> >>)}}
    \cup {[item_content |-> PyStr("hello"), attr_content |-> PyStr("other"),
           item_text |-> PyStr("text"), repr |-> "<resp>"],
          [item_content |-> Unset, attr_content |-> Unset, item_text |-> Unset,
           repr |-> "<resp>"]}

ErrorTexts ==
    {"insufficient_quota", "You exceeded your current quota", "Error code: 429",
     "Quota", "QUOTA exceeded", "Error code: 42", "Connection error.", ""}

UpstreamOutcomes ==
    {[resp |-> r] : r \in Resps} \cup {[raised |-> e] : e \in ErrorTexts}

Keys == {PyNone, PyStr(""), PyStr("sk-test")}
Prompts == {PyStr(""), PyStr("what is a derivative")}

----------------------------------------------------------------------------
(* ConnectionManager and websocket_endpoint *)

\* the sockets, numbered in the order in which the server accepts them
Conns == {1, 2}

\* the text frames a client sends
Frames ==
    {JsonObj(<< <<"id", PyStr("abc")>>, <<"text", PyStr("what is a derivative")>> >>),
     JsonObj(<< <<"text", PyStr("hi")>> >>),
     JsonObj(<< <<"id", PyNum(7)>> >>),
     "2+2?", "[1]"}

\* what sync_call does in a session
SessionOutcomes ==
    {[resp |-> [item_content |-> Unset,
                attr_content |-> PyStr(JsonObj(<< <<"explanation", PyStr("E")>>,
                                                  <<"speech", PyStr("S")>> >>)),
                item_text |-> Unset, repr |-> "<resp>"]],
     [raised |-> "Error code: 429"]}

\* the credentials a session runs with
SessionKeys == {PyNone, PyStr("sk-test")}

\* what send_text does on a socket whose peer has gone: the frame is dropped
\* silently, or WebSocketDisconnect is raised, or another exception is raised,
\* depending on the installed starlette/uvicorn.
SendOnClosed == {"silent", "disconnect", "error"}

InRegistry(c) == \E i \in 1..Len(active_connections) : active_connections[i] = c

\* disconnect that pops the last entry instead of removing ws
disconnect_pop(conns, ws) ==
    IF Len(conns) > 0 THEN SubSeq(conns, 1, Len(conns) - 1) ELSE conns

\* ConnectionManager.disconnect: list.remove of the first occurrence, if any
disconnect(conns, ws) ==
    IF \E i \in 1..Len(conns) : conns[i] = ws
    THEN LET i == CHOOSE i \in 1..Len(conns) :
                      conns[i] = ws /\ \A j \in 1..(i - 1) : conns[j] # ws
         IN  SubSeq(conns, 1, i - 1) \o SubSeq(conns, i + 1, Len(conns))
    ELSE conns

\* parse_frame that drops a frame it cannot read as an object
parse_frame_reject(d) ==
    LET p == json_loads(PyStr(d))
    IN  IF p.ok /\ IsDict(p.v)
        THEN [text |-> dict_get(p.v, "text", PyStr("")),
              msg_id |-> dict_get(p.v, "id", PyNone)]
        ELSE [text |-> PyStr(""), msg_id |-> PyNone]

\* Lines 188-194: text and msg_id from a frame
parse_frame(d) ==
    LET p == json_loads(PyStr(d))
    IN  IF p.ok /\ IsDict(p.v)
        THEN [text |-> dict_get(p.v, "text", PyStr("")),
              msg_id |-> dict_get(p.v, "id", PyNone)]
        ELSE [text |-> PyStr(d), msg_id |-> PyNone]

\* Line 198
outgoing(mid, res) == PyDict(<< <<"id", mid>>, <<"response", res>> >>)

\* parse_frame, after_upstream and json_dumps(outgoing) tabulated over the
\* session's inputs, so that each is evaluated once per input.
ParsedFrames == [f \in Frames |-> parse_frame(f)]
SessionAnswers == [o \in SessionOutcomes |-> after_upstream(o)]
MsgIds == {ParsedFrames[f].msg_id : f \in Frames}
Answers ==
    {SessionAnswers[o] : o \in SessionOutcomes}
    \cup ({early_return(k, m) : k \in Keys, m \in BOOLEAN} \ {Unset})
ReplyText == [mid \in MsgIds, res \in Answers |-> json_dumps(outgoing(mid, res))]

\* send_reply that answers nothing when the adapter's answer is a failure report
send_reply_skip(c, mid, res) ==
    IF Contains(dict_get(res, "explanation", PyStr("")).str, FailedPrefix)
    THEN /\ pc' = [pc EXCEPT ![c] = "receive"]
         /\ UNCHANGED <<send_calls, wire, delivered, active_connections>>
    ELSE /\ send_calls' = [send_calls EXCEPT ![c] = @ + 1]
         /\ wire' = [wire EXCEPT ![c] = PyStr(ReplyText[mid, res])]
         /\ delivered' = [delivered EXCEPT ![c] = @ + 1]
         /\ pc' = [pc EXCEPT ![c] = "receive"]
         /\ UNCHANGED active_connections

\* Lines 198-202: build the reply and send_text it on this connection's socket.
send_reply(c, mid, res) ==
    /\ send_calls' = [send_calls EXCEPT ![c] = @ + 1]
    /\ IF client_open[c]
       THEN /\ wire' = [wire EXCEPT ![c] = PyStr(ReplyText[mid, res])]
            /\ delivered' = [delivered EXCEPT ![c] = @ + 1]
            /\ pc' = [pc EXCEPT ![c] = "receive"]
            /\ UNCHANGED active_connections
       ELSE /\ UNCHANGED <<wire, delivered>>
            /\ \E how \in SendOnClosed :
                 CASE how = "silent" ->
                        /\ pc' = [pc EXCEPT ![c] = "receive"]
                        /\ UNCHANGED active_connections
                   [] how = "disconnect" ->
                        /\ pc' = [pc EXCEPT ![c] = "closed"]
                        /\ active_connections' = disconnect(active_connections, c)
                   [] how = "error" ->
                        /\ pc' = [pc EXCEPT ![c] = "failed_send"]
                        /\ UNCHANGED active_connections

\* Lines 184, 170-172: the endpoint starts, accepts and registers the socket.
connect(c) ==
    /\ pc[c] = "init"
    /\ \A d \in Conns : d < c => pc[d] # "init"
    /\ pc' = [pc EXCEPT ![c] = "receive"]
    /\ client_open' = [client_open EXCEPT ![c] = TRUE]
    /\ active_connections' = Append(active_connections, c)
    /\ UNCHANGED <<data, text, msg_id, result, wire, delivered, received,
                   send_calls, inflight>>
    /\ UNCHANGED <<config_vars, adapter_vars>>

\* The peer closes the socket.
ClientDisconnect(c) ==
    /\ pc[c] \in {"receive", "call"}
    /\ client_open[c]
    /\ client_open' = [client_open EXCEPT ![c] = FALSE]
    /\ UNCHANGED <<active_connections, pc, data, text, msg_id, result, wire,
                   delivered, received, send_calls, inflight>>
    /\ UNCHANGED <<config_vars, adapter_vars>>

\* ReceiveFrame that starts the upstream call without awaiting it
ReceiveFrame_pipelined(c) ==
    /\ pc[c] = "receive"
    /\ received[c] < MaxFrames
    /\ \E f \in Frames :
         LET p == ParsedFrames[f]
         IN  /\ data' = [data EXCEPT ![c] = PyStr(f)]
             /\ text' = [text EXCEPT ![c] = p.text]
             /\ msg_id' = [msg_id EXCEPT ![c] = p.msg_id]
             /\ received' = [received EXCEPT ![c] = @ + 1]
             /\ inflight' = [inflight EXCEPT ![c] = @ + 1]
             /\ UNCHANGED <<pc, result, wire, delivered, send_calls,
                            active_connections>>
    /\ UNCHANGED client_open
    /\ UNCHANGED <<config_vars, adapter_vars>>

\* Lines 187-199: receive_text returns a text frame (one the peer sent before it
\* closed, if it has closed); the handler parses it and enters call_openai_chat,
\* which returns at once (lines 78-90) or suspends in to_thread (line 128).
ReceiveFrame(c) ==
    /\ pc[c] = "receive"
    /\ received[c] < MaxFrames
    /\ \E f \in Frames :
         LET p == ParsedFrames[f]
             r == early_return(OPENAI_API_KEY, USE_MOCK)
         IN  /\ data' = [data EXCEPT ![c] = PyStr(f)]
             /\ text' = [text EXCEPT ![c] = p.text]
             /\ msg_id' = [msg_id EXCEPT ![c] = p.msg_id]
             /\ received' = [received EXCEPT ![c] = @ + 1]
             /\ IF r # Unset
                THEN /\ result' = [result EXCEPT ![c] = r]
                     /\ send_reply(c, p.msg_id, r)
                     /\ UNCHANGED inflight
                ELSE /\ pc' = [pc EXCEPT ![c] = "call"]
                     /\ inflight' = [inflight EXCEPT ![c] = @ + 1]
                     /\ UNCHANGED <<result, wire, delivered, send_calls,
                                    active_connections>>
    /\ UNCHANGED client_open
    /\ UNCHANGED <<config_vars, adapter_vars>>

\* Lines 127-163, 197-202: the upstream call ends, call_openai_chat returns and
\* the handler sends the reply.
UpstreamReturns(c) ==
    /\ pc[c] = "call"
    /\ \E o \in SessionOutcomes :
         LET r == SessionAnswers[o]
         IN  /\ result' = [result EXCEPT ![c] = r]
             /\ inflight' = [inflight EXCEPT ![c] = @ - 1]
             /\ send_reply(c, msg_id[c], r)
    /\ UNCHANGED <<client_open, data, text, msg_id, received>>
    /\ UNCHANGED <<config_vars, adapter_vars>>

\* Lines 187, 201-202: receive_text raises WebSocketDisconnect.
ReceiveDisconnect(c) ==
    /\ pc[c] = "receive"
    /\ ~client_open[c]
    /\ pc' = [pc EXCEPT ![c] = "closed"]
    /\ active_connections' = disconnect(active_connections, c)
    /\ UNCHANGED <<client_open, data, text, msg_id, result, wire, delivered,
                   received, send_calls, inflight>>
    /\ UNCHANGED <<config_vars, adapter_vars>>

\* Lines 187, 201: receive_text raises something else (a binary frame makes
\* message["text"] a KeyError); `except WebSocketDisconnect` does not match.
ReceiveError(c) ==
    /\ pc[c] = "receive"
    /\ pc' = [pc EXCEPT ![c] = "failed_receive"]
    /\ UNCHANGED <<active_connections, client_open, data, text, msg_id, result,
                   wire, delivered, received, send_calls, inflight>>
    /\ UNCHANGED <<config_vars, adapter_vars>>

ConfigInit ==
    /\ OPENAI_API_KEY \in Keys
    /\ USE_MOCK \in BOOLEAN

SessionInit ==
    /\ active_connections = <<>>
    /\ pc = [c \in Conns |-> "init"]
    /\ client_open = [c \in Conns |-> FALSE]
    /\ data = [c \in Conns |-> Unset]
    /\ text = [c \in Conns |-> Unset]
    /\ msg_id = [c \in Conns |-> Unset]
    /\ result = [c \in Conns |-> Unset]
    /\ wire = [c \in Conns |-> Unset]
    /\ delivered = [c \in Conns |-> 0]
    /\ received = [c \in Conns |-> 0]
    /\ send_calls = [c \in Conns |-> 0]
    /\ inflight = [c \in Conns |-> 0]

AdapterInit ==
    /\ upstream_calls = 0
    /\ a_pc = "start"
    /\ a_upstream = Unset
    /\ a_result = Unset

Init ==
    /\ OPENAI_API_KEY \in SessionKeys
    /\ USE_MOCK \in BOOLEAN
    /\ SessionInit
    /\ AdapterInit
    /\ a_prompt = PyStr("")

Next ==
    \E c \in Conns :
        \/ connect(c)
        \/ ClientDisconnect(c)
        \/ ReceiveFrame(c)
        \/ UpstreamReturns(c)
        \/ ReceiveDisconnect(c)
        \/ ReceiveError(c)

Spec == Init /\ [][Next]_vars

----------------------------------------------------------------------------
(* call_openai_chat on its own, over all the inputs above *)

\* Lines 78-128: the early returns, or the start of the one upstream call.
AdapterEnter ==
    /\ a_pc = "start"
    /\ LET r == early_return(OPENAI_API_KEY, USE_MOCK)
       IN  IF r # Unset
           THEN /\ a_result' = r
                /\ a_pc' = "done"
                /\ UNCHANGED upstream_calls
           ELSE /\ a_pc' = "await"
                /\ upstream_calls' = upstream_calls + 1
                /\ UNCHANGED a_result
    /\ UNCHANGED <<a_prompt, a_upstream>>
    /\ UNCHANGED <<config_vars, session_vars>>

\* Lines 128-163: the upstream call ends and the function returns.
AdapterResume ==
    /\ a_pc = "await"
    /\ \E o \in UpstreamOutcomes :
         /\ a_upstream' = o
         /\ a_result' = after_upstream(o)
    /\ a_pc' = "done"
    /\ UNCHANGED <<a_prompt, upstream_calls>>
    /\ UNCHANGED <<config_vars, session_vars>>

InitAdapter ==
    /\ ConfigInit
    /\ SessionInit
    /\ AdapterInit
    /\ a_prompt \in Prompts

NextAdapter == AdapterEnter \/ AdapterResume

SpecAdapter == InitAdapter /\ [][NextAdapter]_vars

----------------------------------------------------------------------------
(* Properties *)

Explanation(res) == dict_get(res, "explanation", Unset)
Speech(res) == dict_get(res, "speech", Unset)

Terminal == {"closed", "failed_receive", "failed_send"}

\* C1: whenever the mock flag is enabled, with or without a credential,
\* call_openai_chat returns the fixed mock pair and makes no upstream call.
C1_MockAlways ==
    (a_pc = "done" /\ USE_MOCK) => (a_result = MockAnswer /\ upstream_calls = 0)

\* C2: once the client has disconnected and the session has ended on it (the
\* handler was waiting for the next frame, or the reply write of an in-flight
\* call failed), the connection is not in active_connections.
C2_AbsentAfterDisconnect ==
    \A c \in Conns :
        (~client_open[c] /\ pc[c] \in {"closed", "failed_send"}) => ~InRegistry(c)

\* C3 as stated: every received text frame is answered by exactly one reply
\* frame on the connection, never zero and never more than one.
C3_OneReplyPerFrame ==
    \A c \in Conns : pc[c] # "call" => delivered[c] = received[c]

\* C3 as amended: for every received text frame the handler calls send_text
\* exactly once, after the adapter has returned; such a call writes exactly one
\* reply frame when the client is still connected and none when it has gone.
C3_OneSendPerFrame ==
    /\ [](\A c \in Conns :
            /\ send_calls[c] = received[c] - inflight[c]
            /\ delivered[c] <= send_calls[c]
            /\ (client_open[c] => delivered[c] = send_calls[c]))
    /\ [][\A c \in Conns :
            /\ send_calls'[c] \in {send_calls[c], send_calls[c] + 1}
            /\ send_calls'[c] = send_calls[c] + 1 =>
                 delivered'[c] = delivered[c] + (IF client_open[c] THEN 1 ELSE 0)
            /\ send_calls'[c] = send_calls[c] => delivered'[c] = delivered[c]]_vars

C3_Witness ==
    \E c \in Conns :
        /\ received[c] = 2
        /\ send_calls[c] = 2
        /\ delivered[c] = 1
        /\ pc[c] = "receive"

\* C4: whatever the upstream call did and whatever the configuration, the
\* explanation and speech that call_openai_chat returns are both strings.
C4_StringFields ==
    a_pc = "done" => (IsStr(Explanation(a_result)) /\ IsStr(Speech(a_result)))

\* C5: with a credential and mock off, when the text extracted from the reply is
\* the JSON object {"explanation": E, "speech": S} for strings E and S, the empty
\* string included, call_openai_chat returns exactly {explanation: E, speech: S}.
C5_RoundTrip ==
    \A e \in {"", "E"}, sp \in {"", "S"} :
        ( /\ a_pc = "done"
          /\ Truthy(OPENAI_API_KEY)
          /\ ~USE_MOCK
          /\ DOMAIN a_upstream = {"resp"}
          /\ extract_content(a_upstream.resp)
               = PyStr(JsonObj(<< <<"explanation", PyStr(e)>>, <<"speech", PyStr(sp)>> >>)) )
        => a_result = Answer(PyStr(e), PyStr(sp))

\* the error texts of ErrorTexts that hold "insufficient_quota", "quota" or "429"
QuotaErrors ==
    {"insufficient_quota", "You exceeded your current quota", "Error code: 429"}

\* C6: an exception of the upstream call never leaves call_openai_chat: after
\* exactly one upstream call it returns an answer whose explanation holds the
\* error text and whose speech is the billing guidance when the text contains
\* "insufficient_quota", "quota" or "429" (case-sensitive), the generic message
\* otherwise.
C6_ErrorsAbsorbed ==
    (a_pc = "done" /\ DOMAIN a_upstream = {"raised"}) =>
        /\ IsDict(a_result)
        /\ upstream_calls = 1
        /\ IsStr(Explanation(a_result))
        /\ Contains(Explanation(a_result).str, a_upstream.raised)
        /\ Speech(a_result) =
             (IF a_upstream.raised \in QuotaErrors
              THEN PyStr(QuotaSpeech) ELSE PyStr(GenericSpeech))

C6_Witness ==
    /\ a_pc = "done"
    /\ DOMAIN a_upstream = {"raised"}
    /\ a_upstream.raised = "Error code: 429"
    /\ Speech(a_result) = PyStr(QuotaSpeech)

\* what C7 expects of each frame of Frames, written out by hand
ExpectedOfFrame ==
    [raw \in {"{\"id\": \"abc\", \"text\": \"what is a derivative\"}",
              "{\"text\": \"hi\"}", "{\"id\": 7}", "2+2?", "[1]"} |->
        CASE raw = "{\"id\": \"abc\", \"text\": \"what is a derivative\"}" ->
               [text |-> PyStr("what is a derivative"), msg_id |-> PyStr("abc")]
          [] raw = "{\"text\": \"hi\"}" -> [text |-> PyStr("hi"), msg_id |-> PyNone]
          [] raw = "{\"id\": 7}" -> [text |-> PyStr(""), msg_id |-> PyNum(7)]
          [] raw = "2+2?" -> [text |-> PyStr("2+2?"), msg_id |-> PyNone]
          [] raw = "[1]" -> [text |-> PyStr("[1]"), msg_id |-> PyNone]]

\* the client's reading of each reply text the server can write
ReadReply == [w \in {ReplyText[x] : x \in DOMAIN ReplyText} |-> json_loads(PyStr(w))]

\* the reply to the frame in data[c] has been written to the socket
Answered(c) == pc[c] # "call" /\ received[c] > 0 /\ delivered[c] = received[c]

\* C7: a frame that is a JSON object gives the prompt its text field ("" when
\* absent) and the reply its id field (null when absent); any other frame, valid
\* JSON or not, is not rejected: the whole raw frame is the prompt and the reply
\* id is null.
C7_FrameToPromptAndId ==
    \A c \in Conns :
        data[c] # Unset =>
            /\ data[c].str \in DOMAIN ExpectedOfFrame
            /\ text[c] = ExpectedOfFrame[data[c].str].text
            /\ msg_id[c] = ExpectedOfFrame[data[c].str].msg_id
            /\ Answered(c) =>
                 LET r == ReadReply[wire[c].str]
                 IN  /\ r.ok
                     /\ IsDict(r.v)
                     /\ dict_get(r.v, "id", Unset) = ExpectedOfFrame[data[c].str].msg_id
                     /\ dict_get(r.v, "response", Unset) = result[c]

C7_Witness ==
    \E c \in Conns :
        /\ data[c] = PyStr("2+2?")
        /\ Answered(c)
        /\ received[c] = 2

\* C8: every way a session ends, an error of receive_text other than a
\* disconnect included, leaves the connection out of the registry.
C8_TerminalRemoves ==
    \A c \in Conns : pc[c] \in Terminal => ~InRegistry(c)

\* C9: a connection has at most one upstream call outstanding and reads no
\* frame before the reply to the previous one has been sent, while another
\* connection's frames are received and answered while its call is outstanding.
C9_Sequential ==
    \A c \in Conns :
        /\ inflight[c] \in {0, 1}
        /\ inflight[c] = 1 <=> pc[c] = "call"
        /\ pc[c] = "receive" => send_calls[c] = received[c]
        /\ pc[c] = "call" =>
             /\ send_calls[c] = received[c] - 1
             /\ ~ENABLED ReceiveFrame(c)
             /\ \A d \in Conns \ {c} :
                  /\ (pc[d] = "receive" /\ received[d] < MaxFrames)
                        => ENABLED ReceiveFrame(d)
                  /\ pc[d] = "call" => ENABLED UpstreamReturns(d)

C9_Witness ==
    /\ pc[1] = "call"
    /\ pc[2] = "call"
    /\ received[1] = 2
    /\ delivered[2] = 1

\* the registry without the connections that caught a disconnect in this step
Remaining == LET Stays(x) == ~(pc[x] # "closed" /\ pc'[x] = "closed")
             IN  SelectSeq(active_connections, Stays)

\* C10: the registry holds a connection at most once, and only connections that
\* were accepted and have not caught a disconnect; a disconnect removes that
\* connection alone (nothing when it is absent) and keeps the other entries; a
\* reply is written only to the socket of the handler that built it.
C10_Registry ==
    /\ [](/\ \A i, j \in 1..Len(active_connections) :
               i # j => active_connections[i] # active_connections[j]
          /\ \A i \in 1..Len(active_connections) :
               pc[active_connections[i]] \notin {"init", "closed"}
          /\ \A c \in Conns :
               ~InRegistry(c) => disconnect(active_connections, c) = active_connections)
    /\ [][/\ \E new \in {<<>>} \cup {<<c>> : c \in Conns} :
               /\ active_connections' = Remaining \o new
               /\ \A c \in Conns :
                    (pc[c] = "init" /\ pc'[c] # "init") <=> new = <<c>>
          /\ \A d \in Conns :
               (wire'[d] # wire[d] \/ delivered'[d] # delivered[d]) =>
                   /\ send_calls'[d] = send_calls[d] + 1
                   /\ wire'[d] = PyStr(ReplyText[msg_id'[d], result'[d]])
                   /\ \A o \in Conns \ {d} :
                        wire'[o] = wire[o] /\ delivered'[o] = delivered[o]]_vars

C10_Witness ==
    /\ pc[1] = "closed"
    /\ active_connections = <<2>>
    /\ delivered[2] = 1

====
